---- MODULE Spec2Model ----
(***************************************************************************)
(* KuberBank ledger: the PostgreSQL stored functions and triggers of       *)
(* database/functions/001_banking_functions.sql and                        *)
(* database/migrations/001_init_schema.sql, and the HTTP handlers of       *)
(* app/api/server.js, run by concurrent database sessions under READ       *)
(* COMMITTED.  Money is counted in cents (DECIMAL(15,2)).                    *)
(*                                                                         *)
(* Every SQL statement is one step.  A statement that has to take an       *)
(* account row lock held by another session is not enabled until the lock  *)
(* is free.  All writes of a transaction become visible at its commit.     *)
(***************************************************************************)
EXTENDS Integers, Sequences, FiniteSets, TLC

VARIABLES accounts, txlog, limits, audit, alerts, users, locks, ses, hist, started,
          variable_conflict, page

vars == <<accounts, txlog, limits, audit, alerts, users, locks, ses, hist, started,
          variable_conflict, page>>

----------------------------------------------------------------------------
(* Bounds and input sets of the model.                                      *)

MaxOps == 2

\* form submissions the page handles
MaxSubmits == 3

\* account numbers the page meets; amounts typed into its forms; balances
\* the server reports; what a fetch comes to
FrontNumbers == {1, 2}

FrontAmounts == {5000, 150000}

ServerBalances == {5000, 100000}

NetworkAnswers == {"ok", "error"}

Sessions == {1, 2}

AcctIds == {1, 2, 3}

Emails == {1, 2}

UserIds == {1, 2}

\* the (from, to) pairs of the transfer requests: both directions, a transfer
\* to oneself, and each side missing
TransferPairs == {<<1, 2>>, <<2, 1>>, <<1, 1>>, <<1, 3>>, <<3, 1>>}

\* the account numbers a creation may generate: one in use, one not
NewNumbers == {1, 3}

Amounts == {0 - 5000, 0, 5000, 10000}

InitOverdrafts == {0, 5000}

\* what account 1 has withdrawn today before the first call of the model
InitUsages == {0, 95000}

Acct1Balance == 100 * 100

Acct2Balance == 0 * 100

RequestTypes == {"deposit", "withdrawal", "bonus"}

----------------------------------------------------------------------------
(* Values.                                                                  *)

Null == << >>

Some(v) == <<v>>

Free == 0

RECURSIVE SumBal(_, _)
SumBal(acc, S) ==
    IF S = {} THEN 0
    ELSE LET a == CHOOSE x \in S : TRUE
         IN  (IF acc[a].exists THEN acc[a].balance ELSE 0) + SumBal(acc, S \ {a})

MaxOf(S) == IF S = {} THEN 0 ELSE CHOOSE x \in S : \A y \in S : y <= x

----------------------------------------------------------------------------
(* Schema: rows, defaults and constraints.                                  *)

\* accounts row; a slot that holds no row has exists = FALSE
NoAccount ==
    [exists |-> FALSE, user |-> 0, balance |-> 0, status |-> "none",
     overdraft_limit |-> 0, last_transaction_at |-> Null, closed |-> FALSE]

AccountRow(u, bal, st, od) ==
    [exists |-> TRUE, user |-> u, balance |-> bal, status |-> st,
     overdraft_limit |-> od, last_transaction_at |-> Null, closed |-> FALSE]

\* the table without the constraint
positive_balance_dropped(row) == TRUE

\* CONSTRAINT positive_balance CHECK (balance >= -overdraft_limit)
positive_balance(row) == row.balance >= 0 - row.overdraft_limit

\* the table without UNIQUE on account_number
account_number_not_checked(acc, n) == TRUE

\* account_number ... UNIQUE: TRUE iff inserting a row with number n does not
\* violate it
account_number_unique(acc, n) == ~acc[n].exists

\* CONSTRAINT positive_amount CHECK (amount > 0)
positive_amount(amount) == amount > 0

\* reference_number UUID DEFAULT uuid_generate_v4(): a value not used before
uuid_generate_v4(log) == 1 + MaxOf({log[i].reference_number : i \in 1..Len(log)})

\* the column without UNIQUE
reference_not_checked(log, ref) == TRUE

\* reference_number ... UNIQUE: TRUE iff inserting ref does not violate it
reference_unique(log, ref) == \A i \in 1..Len(log) : log[i].reference_number # ref

\* transactions row; id is the BIGSERIAL value, status is always 'completed'
TxRow(id, acct, type, amount, before, after, ref, relAcct, relTx, desc) ==
    [id |-> id, account_id |-> acct, type |-> type, amount |-> amount,
     balance_before |-> before, balance_after |-> after,
     reference_number |-> ref, status |-> "completed",
     related_account_id |-> relAcct, related_transaction_id |-> relTx,
     description |-> desc]

NextTxId(log) == Len(log) + 1

\* the three account_limits rows create_account seeds, by limit_type
DailyWithdrawalLimit == 100000

DailyTransferLimit == 500000

SingleTransactionLimit == 200000

LimitRow(cap, period) ==
    [exists |-> TRUE, amount |-> cap, period |-> period, current_usage |-> 0,
     reset_at |-> "null"]

NoLimitRow ==
    [exists |-> FALSE, amount |-> 0, period |-> "none", current_usage |-> 0,
     reset_at |-> "null"]

LimitTypes == {"daily_withdrawal", "daily_transfer", "single_transaction"}

NoLimits == [t \in LimitTypes |-> NoLimitRow]

DefaultLimits ==
    [daily_withdrawal |-> LimitRow(DailyWithdrawalLimit, "daily"),
     daily_transfer |-> LimitRow(DailyTransferLimit, "daily"),
     single_transaction |-> LimitRow(SingleTransactionLimit, "transaction")]

AuditRow(acct, action, old, new) ==
    [account_id |-> acct, action |-> action, old_values |-> old, new_values |-> new]

AlertRow(u, acct, type) == [user_id |-> u, account_id |-> acct, type |-> type]

----------------------------------------------------------------------------
(* A transaction works on its own view w of the tables; w.err is "ok"      *)
(* until a statement raises, and later statements are then skipped.        *)

Ok == "ok"

Raise(w, e) == [w EXCEPT !.err = e]

\* the accounts table without the trigger account_balance_audit
log_balance_change_not_fired(aud, id, old, new) == aud

\* log_balance_change, AFTER UPDATE ON accounts
log_balance_change(aud, id, old, new) ==
    IF old.balance # new.balance
    THEN Append(aud, AuditRow(id, "balance_change", Some(old.balance), Some(new.balance)))
    ELSE aud

\* plpgsql.variable_conflict, the server setting that decides what a name
\* means that is both a variable of a function and a column of its query
VariableConflicts == {"error", "use_variable", "use_column"}

\* validate_transaction_amount, BEFORE INSERT ON transactions: the error it
\* raises, or Ok.  Its SELECT names overdraft_limit, which is a variable of
\* the function and a column of accounts: under "error" the SELECT fails,
\* under "use_variable" it reads the variable, which is NULL, and the
\* comparison with -NULL is not true
validate_transaction_amount(type, amount, row) ==
    IF type \notin {"withdrawal", "transfer"} THEN Ok
    ELSE CASE variable_conflict = "error" -> "ambiguous_column"
           [] variable_conflict = "use_variable" -> Ok
           [] OTHER -> IF (row.balance - amount) < 0 - row.overdraft_limit
                       THEN "InsufficientFunds" ELSE Ok

\* update_last_transaction, AFTER INSERT ON transactions (status = 'completed')
update_last_transaction(row, txid) == [row EXCEPT !.last_transaction_at = Some(txid)]

\* an INSERT that takes the place of the last row of the log
insert_transaction_overwrites(w, acct, type, amount, before, after, ref, relAcct, relTx, desc) ==
    IF w.err # Ok \/ Len(w.txlog) = 0 THEN w
    ELSE [w EXCEPT !.txlog[Len(w.txlog)] =
                      TxRow(Len(w.txlog), acct, type, amount, before, after,
                            ref, relAcct, relTx, desc)]

\* INSERT INTO transactions (...) with its triggers and constraints
insert_transaction(w, acct, type, amount, before, after, ref, relAcct, relTx, desc) ==
    IF w.err # Ok THEN w
    ELSE IF validate_transaction_amount(type, amount, w.accounts[acct]) # Ok
         THEN Raise(w, validate_transaction_amount(type, amount, w.accounts[acct]))
    ELSE IF ~positive_amount(amount) THEN Raise(w, "check_violation")
    ELSE IF ~reference_unique(w.txlog, ref) THEN Raise(w, "unique_violation")
    ELSE LET id == NextTxId(w.txlog) IN
         [w EXCEPT !.txlog = Append(@, TxRow(id, acct, type, amount, before, after,
                                              ref, relAcct, relTx, desc)),
                   !.accounts[acct] = update_last_transaction(@, id)]

\* UPDATE accounts SET balance = newbal WHERE id = acct
update_balance(w, acct, newbal) ==
    IF w.err # Ok THEN w
    ELSE LET old == w.accounts[acct]
             new == [old EXCEPT !.balance = newbal]
         IN  IF ~positive_balance(new) THEN Raise(w, "check_violation")
             ELSE [w EXCEPT !.accounts[acct] = new,
                            !.audit = log_balance_change(@, acct, old, new)]

\* INSERT INTO alerts ... SELECT user_id ... FROM accounts WHERE id = acct
insert_alert(w, acct, type) ==
    IF w.err # Ok THEN w
    ELSE [w EXCEPT !.alerts = Append(@, AlertRow(w.accounts[acct].user, acct, type))]

\* a withdrawal that leaves the usage as it was
update_daily_usage_skipped(w, acct, amt) == w

\* UPDATE account_limits SET current_usage = current_usage + amt
\*  WHERE account_id = acct AND limit_type = 'daily_withdrawal'
update_daily_usage(w, acct, amt) ==
    IF w.err # Ok \/ ~w.limits[acct].daily_withdrawal.exists THEN w
    ELSE [w EXCEPT !.limits[acct].daily_withdrawal.current_usage = @ + amt]

\* a failed transaction whose writes stay
RollbackKeepsWrites(before, w) == w

\* ROLLBACK: the tables as they were before the transaction
Rollback(before, w) == before

----------------------------------------------------------------------------
(* Sessions.                                                                *)

Idle ==
    [pc |-> "idle", op |-> "none", acct |-> 0, to |-> 0, amount |-> 0,
     type |-> "none", v_balance |-> 0, v_overdraft |-> 0,
     v_from_found |-> FALSE, v_to_found |-> FALSE, v_to_balance |-> 0, v_count |-> 0]

Call(op, acct, to, amount, type) ==
    [Idle EXCEPT !.op = op, !.acct = acct, !.to = to, !.amount = amount, !.type = type]

\* what a finished call returned to its caller
Outcome(c, result) ==
    [op |-> c.op, acct |-> c.acct, to |-> c.to, amount |-> c.amount,
     type |-> c.type, result |-> result, v_count |-> c.v_count]

\* a new call is taken by the first idle session
CanStart(s) ==
    /\ ses[s].pc = "idle"
    /\ started < MaxOps
    /\ \A t \in Sessions : t < s => ses[t].pc # "idle"

\* row locks that keep nobody out
LockFree_always(s, a) == TRUE

\* the row lock of account a can be taken by session s
LockFree(s, a) == locks[a] \in {Free, s}

\* a transaction end that leaves the row locks held
Release_nothing(s) == locks

Release(s) == [a \in AcctIds |-> IF locks[a] = s THEN Free ELSE locks[a]]

Tables ==
    [accounts |-> accounts, txlog |-> txlog, limits |-> limits, audit |-> audit,
     alerts |-> alerts, users |-> users, err |-> Ok]

Install(w) ==
    /\ accounts' = w.accounts
    /\ txlog' = w.txlog
    /\ limits' = w.limits
    /\ audit' = w.audit
    /\ alerts' = w.alerts
    /\ users' = w.users
    /\ UNCHANGED <<variable_conflict, page>>

\* the call of session s ends: COMMIT if no statement raised, else ROLLBACK
End(s, c, w, result) ==
    /\ Install(IF w.err = Ok THEN w ELSE Rollback(Tables, w))
    /\ ses' = [ses EXCEPT ![s] = Idle]
    /\ hist' = Append(hist, Outcome(c, IF w.err = Ok THEN result ELSE w.err))
    /\ locks' = Release(s)

\* the call goes on to its next statement
Goto(s, c) ==
    /\ ses' = [ses EXCEPT ![s] = c]
    /\ UNCHANGED <<accounts, txlog, limits, audit, alerts, users, hist, variable_conflict,
                   page>>

\* SELECT ... WHERE account_number = a AND status = 'active' finds a row
ActiveAccount(a) == accounts[a].exists /\ accounts[a].status = "active"

\* the same WHERE clause in a function that RETURNS TABLE(..., status ...):
\* status is then also an output variable of the function, and the SELECT
\* fails as ambiguous when plpgsql.variable_conflict is "error"
StatusAmbiguous == variable_conflict = "error"

\* ... and under "use_variable" status is the variable, which is NULL, so no
\* row is found
FindsActive(a) == variable_conflict = "use_column" /\ ActiveAccount(a)

----------------------------------------------------------------------------
(* Initial state: accounts 1 and 2 were opened by create_account for user  *)
(* 1, account number 3 is not in use.                                      *)

InitialDeposit(log, a, bal) ==
    IF bal > 0
    THEN Append(log, TxRow(NextTxId(log), a, "deposit", bal, Some(0), Some(bal),
                           uuid_generate_v4(log), Null, Null, <<"Initial deposit">>))
    ELSE log

\* process_withdrawal(1, u) as a call of its own on the tables t: the
\* transaction row, the balance, the usage
EarlierWithdrawal(t, u) ==
    IF u = 0 THEN t
    ELSE LET old == t.accounts[1].balance
             id == NextTxId(t.txlog)
             w1 == [t EXCEPT
                      !.txlog = Append(@, TxRow(id, 1, "withdrawal", u, Some(old),
                                                Some(old - u), uuid_generate_v4(t.txlog),
                                                Null, Null, <<"Withdrawal">>)),
                      !.accounts[1] = update_last_transaction(@, id)]
         IN  update_daily_usage(update_balance(w1, 1, old - u), 1, u)

\* the tables after both accounts were opened, account 1 with what it holds
\* now and what it has withdrawn since
Opened(od1, u1) ==
    LET log == InitialDeposit(InitialDeposit(<< >>, 1, Acct1Balance + u1), 2, Acct2Balance)
    IN  [accounts |-> [a \in AcctIds |->
                         CASE a = 1 -> update_last_transaction(
                                          AccountRow(1, Acct1Balance + u1, "active", od1), 1)
                           [] a = 2 -> AccountRow(1, Acct2Balance, "active", 0)
                           [] OTHER -> NoAccount],
         txlog |-> log,
         limits |-> [a \in AcctIds |-> IF a \in {1, 2} THEN DefaultLimits ELSE NoLimits],
         audit |-> << AuditRow(1, "account_created", Null, Some(Acct1Balance + u1)),
                      AuditRow(2, "account_created", Null, Some(Acct2Balance)) >>,
         alerts |-> << >>, users |-> {1}, err |-> Ok]

\* the web page (script.js) as the browser has it after evaluating the script
\* from top to bottom: the state object of lines 21-26, the empty Maps of
\* demoAPI, and useAPI, which line 268 binds once, from state.isDemo as it is
\* at that moment; initializeApp() has been called and its probe is in flight
script_loaded(stored) ==
    LET state == [currentAccount |-> Null, isLoggedIn |-> FALSE, isDemo |-> FALSE]
    IN  [state |-> state,
         useAPI |-> IF state.isDemo THEN "demoAPI" ELSE "api",
         accounts |-> [n \in FrontNumbers |-> Null],
         localStorage |-> stored,
         step |-> "probe",
         handled |-> 0,
         requests |-> << >>]

\* the database as the migrations and the earlier calls have left it
DatabaseInit ==
    \E od1 \in InitOverdrafts, u1 \in InitUsages :
        /\ variable_conflict \in VariableConflicts
        /\ u1 > 0 => variable_conflict = "use_column"
        /\ accounts = EarlierWithdrawal(Opened(od1, u1), u1).accounts
        /\ txlog = EarlierWithdrawal(Opened(od1, u1), u1).txlog
        /\ limits = EarlierWithdrawal(Opened(od1, u1), u1).limits
        /\ audit = EarlierWithdrawal(Opened(od1, u1), u1).audit
        /\ alerts = << >>
        /\ users = {1}
        /\ locks = [a \in AcctIds |-> Free]
        /\ ses = [s \in Sessions |-> Idle]
        /\ hist = << >>
        /\ started = 0

Init == DatabaseInit /\ page = script_loaded(Null)

----------------------------------------------------------------------------
(* process_deposit                                                          *)

LargeDeposit == 1000000

\* SELECT id, balance INTO ...; the two IF ... RAISE EXCEPTION checks
process_deposit_select(s, a, amt) ==
    /\ CanStart(s)
    /\ started' = started + 1
    /\ LET c == Call("process_deposit", a, 0, amt, "deposit") IN
       IF StatusAmbiguous THEN End(s, c, Raise(Tables, "ambiguous_column"), "completed")
       ELSE IF ~FindsActive(a) THEN End(s, c, Raise(Tables, "AccountNotFound"), "completed")
       ELSE IF amt <= 0 THEN End(s, c, Raise(Tables, "InvalidAmount"), "completed")
       ELSE /\ Goto(s, [c EXCEPT !.pc = "dep_insert", !.v_balance = accounts[a].balance])
            /\ UNCHANGED locks

\* INSERT INTO transactions (its AFTER trigger updates the account row, so
\* the statement waits for the row lock), UPDATE accounts, the alert, commit
process_deposit_body(c) ==
    LET a == c.acct
        v_new_balance == c.v_balance + c.amount
        w1 == insert_transaction(Tables, a, "deposit", c.amount, Some(c.v_balance),
                                 Some(v_new_balance), uuid_generate_v4(txlog),
                                 Null, Null, <<"Deposit">>)
        w2 == update_balance(w1, a, v_new_balance)
    IN  IF c.amount > LargeDeposit THEN insert_alert(w2, a, "large_transaction")
        ELSE w2

process_deposit_write(s) ==
    /\ ses[s].pc = "dep_insert"
    /\ LockFree(s, ses[s].acct)
    /\ End(s, ses[s], process_deposit_body(ses[s]), "completed")
    /\ UNCHANGED started

----------------------------------------------------------------------------
(* process_withdrawal                                                       *)

LowBalance == 10000

\* SELECT id, balance, overdraft_limit INTO ...; the three checks
process_withdrawal_select(s, a, amt) ==
    /\ CanStart(s)
    /\ started' = started + 1
    /\ LET c == Call("process_withdrawal", a, 0, amt, "withdrawal") IN
       IF StatusAmbiguous THEN End(s, c, Raise(Tables, "ambiguous_column"), "completed")
       ELSE IF ~FindsActive(a) THEN End(s, c, Raise(Tables, "AccountNotFound"), "completed")
       ELSE IF amt <= 0 THEN End(s, c, Raise(Tables, "InvalidAmount"), "completed")
       ELSE IF (accounts[a].balance - amt) < 0 - accounts[a].overdraft_limit
            THEN End(s, c, Raise(Tables, "InsufficientFunds"), "completed")
       ELSE /\ Goto(s, [c EXCEPT !.pc = "wd_limits", !.v_balance = accounts[a].balance,
                                 !.v_overdraft = accounts[a].overdraft_limit])
            /\ UNCHANGED locks

\* SELECT amount, current_usage ... AND (reset_at IS NULL OR reset_at > NOW())
DailyLimitFound(row) == row.exists /\ row.reset_at \in {"null", "future"}

\* the limit check of a function that counts the amount before it refuses it
process_withdrawal_limits_counts_refused(s) ==
    /\ ses[s].pc = "wd_limits"
    /\ LET c == ses[s]
           row == limits[c.acct].daily_withdrawal
       IN  IF DailyLimitFound(row) /\ (row.current_usage + c.amount) > row.amount
           THEN End(s, c, update_daily_usage(Tables, c.acct, c.amount), "LimitExceeded")
           ELSE Goto(s, [c EXCEPT !.pc = "wd_validate"]) /\ UNCHANGED locks
    /\ UNCHANGED started

\* Check daily limits
process_withdrawal_limits(s) ==
    /\ ses[s].pc = "wd_limits"
    /\ LET c == ses[s]
           row == limits[c.acct].daily_withdrawal
       IN  IF DailyLimitFound(row) /\ (row.current_usage + c.amount) > row.amount
           THEN End(s, c, Raise(Tables, "LimitExceeded"), "completed")
           ELSE Goto(s, [c EXCEPT !.pc = "wd_validate"]) /\ UNCHANGED locks
    /\ UNCHANGED started

\* INSERT INTO transactions, first part: the BEFORE trigger reads the
\* committed account row
process_withdrawal_validate(s) ==
    /\ ses[s].pc = "wd_validate"
    /\ LET c == ses[s] IN
       IF validate_transaction_amount("withdrawal", c.amount, accounts[c.acct]) # Ok
       THEN End(s, c, Raise(Tables, validate_transaction_amount("withdrawal", c.amount,
                                                                accounts[c.acct])),
                "completed")
       ELSE Goto(s, [c EXCEPT !.pc = "wd_insert"]) /\ UNCHANGED locks
    /\ UNCHANGED started

\* INSERT INTO transactions, second part (the AFTER trigger waits for the row
\* lock), UPDATE accounts, UPDATE account_limits, the alert, commit
process_withdrawal_body(c) ==
    LET a == c.acct
        v_new_balance == c.v_balance - c.amount
        id == NextTxId(txlog)
        w1 == [Tables EXCEPT
                 !.txlog = Append(@, TxRow(id, a, "withdrawal", c.amount,
                                           Some(c.v_balance), Some(v_new_balance),
                                           uuid_generate_v4(txlog), Null, Null,
                                           <<"Withdrawal">>)),
                 !.accounts[a] = update_last_transaction(@, id)]
        w2 == update_balance(w1, a, v_new_balance)
        w3 == update_daily_usage(w2, a, c.amount)
    IN  IF v_new_balance < LowBalance THEN insert_alert(w3, a, "low_balance") ELSE w3

process_withdrawal_write(s) ==
    /\ ses[s].pc = "wd_insert"
    /\ LockFree(s, ses[s].acct)
    /\ End(s, ses[s], process_withdrawal_body(ses[s]), "completed")
    /\ UNCHANGED started

----------------------------------------------------------------------------
(* process_transfer                                                         *)

\* Validate accounts (the two checks made before any statement), then
\* SELECT id, balance INTO v_from_... WHERE ... status = 'active' FOR UPDATE
process_transfer_lock_from(s, from, to, amt) ==
    /\ CanStart(s)
    /\ started' = started + 1
    /\ LET c == Call("process_transfer", from, to, amt, "transfer") IN
       IF from = to THEN End(s, c, Raise(Tables, "SelfTransfer"), "completed")
       ELSE IF amt <= 0 THEN End(s, c, Raise(Tables, "InvalidAmount"), "completed")
       ELSE IF StatusAmbiguous
            THEN End(s, c, Raise(Tables, "ambiguous_column"), "completed")
       ELSE IF FindsActive(from)
       THEN /\ LockFree(s, from)
            /\ locks' = [locks EXCEPT ![from] = s]
            /\ Goto(s, [c EXCEPT !.pc = "pt_lock_to", !.v_from_found = TRUE,
                                 !.v_balance = accounts[from].balance])
       ELSE Goto(s, [c EXCEPT !.pc = "pt_lock_to"]) /\ UNCHANGED locks

\* SELECT id, balance INTO v_to_... WHERE ... status = 'active' FOR UPDATE
process_transfer_lock_to(s) ==
    /\ ses[s].pc = "pt_lock_to"
    /\ LET c == ses[s] IN
       IF FindsActive(c.to)
       THEN /\ LockFree(s, c.to)
            /\ locks' = [locks EXCEPT ![c.to] = s]
            /\ Goto(s, [c EXCEPT !.pc = "pt_write", !.v_to_found = TRUE,
                                 !.v_to_balance = accounts[c.to].balance])
       ELSE Goto(s, [c EXCEPT !.pc = "pt_write"]) /\ UNCHANGED locks
    /\ UNCHANGED started

\* the statements after the checks: both INSERTs, both UPDATEs, the alert
process_transfer_body(w, c) ==
    LET v_reference == uuid_generate_v4(w.txlog)
        v_from_new_balance == c.v_balance - c.amount
        v_to_new_balance == c.v_to_balance + c.amount
        v_from_tx_id == NextTxId(w.txlog)
        w1 == insert_transaction(w, c.acct, "withdrawal", c.amount, Some(c.v_balance),
                                 Some(v_from_new_balance), v_reference, Some(c.to), Null,
                                 <<"Transfer to", c.to>>)
        w2 == insert_transaction(w1, c.to, "deposit", c.amount, Some(c.v_to_balance),
                                 Some(v_to_new_balance), v_reference, Some(c.acct),
                                 Some(v_from_tx_id), <<"Transfer from", c.acct>>)
        w3 == update_balance(w2, c.acct, v_from_new_balance)
        w4 == update_balance(w3, c.to, v_to_new_balance)
    IN  insert_alert(w4, c.to, "transfer_received")

\* from IF v_from_account_id IS NULL to RETURN QUERY, and the commit
process_transfer_write(s) ==
    /\ ses[s].pc = "pt_write"
    /\ LET c == ses[s] IN
       IF ~c.v_from_found THEN End(s, c, Raise(Tables, "AccountNotFound"), "completed")
       ELSE IF ~c.v_to_found THEN End(s, c, Raise(Tables, "AccountNotFound"), "completed")
       ELSE IF c.v_balance < c.amount
            THEN End(s, c, Raise(Tables, "InsufficientFunds"), "completed")
       ELSE End(s, c, process_transfer_body(Tables, c), "completed")
    /\ UNCHANGED started

----------------------------------------------------------------------------
(* close_account, create_account, reset_daily_limits                        *)

\* close_account without the check of the balance
close_account_select_any_balance(s, a) ==
    /\ CanStart(s)
    /\ started' = started + 1
    /\ LET c == Call("close_account", a, 0, 0, "none") IN
       IF ~ActiveAccount(a) THEN End(s, c, Raise(Tables, "AccountNotFound"), "completed")
       ELSE Goto(s, [c EXCEPT !.pc = "ca_update"]) /\ UNCHANGED locks

\* SELECT id, balance, user_id INTO ...; the two checks
close_account_select(s, a) ==
    /\ CanStart(s)
    /\ started' = started + 1
    /\ LET c == Call("close_account", a, 0, 0, "none") IN
       IF ~ActiveAccount(a) THEN End(s, c, Raise(Tables, "AccountNotFound"), "completed")
       ELSE IF accounts[a].balance # 0
            THEN End(s, c, Raise(Tables, "NonZeroBalance"), "completed")
       ELSE Goto(s, [c EXCEPT !.pc = "ca_update"]) /\ UNCHANGED locks

\* UPDATE accounts SET status = 'closed'; INSERT INTO audit_logs; commit
close_account_write(s) ==
    /\ ses[s].pc = "ca_update"
    /\ LockFree(s, ses[s].acct)
    /\ LET c == ses[s]
           w == [Tables EXCEPT
                   !.accounts[c.acct].status = "closed",
                   !.accounts[c.acct].closed = TRUE,
                   !.audit = Append(@, AuditRow(c.acct, "account_closed",
                                                <<"active">>, <<"closed">>))]
       IN  End(s, c, w, "true")
    /\ UNCHANGED started

\* create_account(p_user_id, 'checking', p_initial_balance); n is the
\* account number that NOW() and random() happen to produce (the call record
\* keeps n as acct and p_user_id as to)
create_account(s, u, initial, n) ==
    /\ CanStart(s)
    /\ started' = started + 1
    /\ LET c == Call("create_account", n, u, initial, "none")
           w1 == [Tables EXCEPT !.accounts[n] = AccountRow(u, initial, "active", 0)]
           w2 == IF initial > 0
                 THEN insert_transaction(w1, n, "deposit", initial, Some(0), Some(initial),
                                         uuid_generate_v4(txlog), Null, Null,
                                         <<"Initial deposit">>)
                 ELSE w1
           w3 == [w2 EXCEPT !.limits[n] = DefaultLimits,
                            !.audit = Append(@, AuditRow(n, "account_created", Null,
                                                         Some(initial)))]
       IN  IF u \notin users THEN End(s, c, Raise(Tables, "UserNotFound"), "completed")
           ELSE IF initial < 0 THEN End(s, c, Raise(Tables, "NegativeBalance"), "completed")
           ELSE IF ~account_number_unique(accounts, n)
                THEN End(s, c, Raise(Tables, "unique_violation"), "completed")
           ELSE End(s, c, w3, "completed")

\* the UPDATE of reset_daily_limits on one row
reset_limit_row(row) ==
    IF row.exists /\ row.period = "daily" /\ row.reset_at \in {"null", "past"}
    THEN [row EXCEPT !.current_usage = 0, !.reset_at = "future"]
    ELSE row

reset_daily_limits(s) ==
    /\ CanStart(s)
    /\ started' = started + 1
    /\ LET new == [a \in AcctIds |-> [t \in LimitTypes |-> reset_limit_row(limits[a][t])]]
           v_count == Cardinality({<<a, t>> \in AcctIds \X LimitTypes :
                                      new[a][t] # limits[a][t]})
           c == [Call("reset_daily_limits", 0, 0, 0, "none") EXCEPT !.v_count = v_count]
       IN  End(s, c, [Tables EXCEPT !.limits = new], "completed")

\* a day passes: every reset_at that was ahead of NOW() is now behind it
DayPasses ==
    /\ \E a \in AcctIds, t \in LimitTypes : limits[a][t].reset_at = "future"
    /\ limits' = [a \in AcctIds |-> [t \in LimitTypes |->
                    IF limits[a][t].reset_at = "future"
                    THEN [limits[a][t] EXCEPT !.reset_at = "past"]
                    ELSE limits[a][t]]]
    /\ UNCHANGED <<accounts, txlog, audit, alerts, users, locks, ses, hist, started,
                   variable_conflict, page>>

----------------------------------------------------------------------------
(* server.js.  node-postgres hands a DECIMAL column to JavaScript as text  *)
(* ("100.00"); a request's amount is a JSON number of whole currency units *)
(* or a fraction of one.                                                   *)

RECURSIVE LeadingDigit(_)
LeadingDigit(n) == IF n < 10 THEN n ELSE LeadingDigit(n \div 10)

\* newBalance += parseFloat(amount), then newBalance as the value of a
\* DECIMAL(15,2) column: "+" joins the two texts, "100.00" and "60" make
\* "100.0060", which the column rounds to two places; a text with a second
\* sign or point is no number (Null)
JsBalancePlus(balance, amt) ==
    IF amt < 0 \/ amt % 100 # 0 THEN Null
    ELSE LET up == IF LeadingDigit(amt \div 100) >= 5 THEN 1 ELSE 0
         IN  Some(IF balance >= 0 THEN balance + up ELSE balance - up)

\* newBalance -= parseFloat(amount): "-" converts the text to a number
JsBalanceMinus(balance, amt) == balance - amt

\* the funds check left out
JsLess_never(balance, amt) == FALSE

\* account.balance < amount, a text against a number: compared as numbers
JsLess(balance, amt) == balance < amt

\* the catch block: ROLLBACK and status 500
Catch(w) == IF w.err = Ok THEN w ELSE Raise(w, "500")

\* POST /api/transactions: BEGIN; SELECT id, balance ... FOR UPDATE
api_transactions_select(s, a, type, amt) ==
    /\ CanStart(s)
    /\ started' = started + 1
    /\ LET c == Call("POST /api/transactions", a, 0, amt, type) IN
       IF ~accounts[a].exists THEN End(s, c, Raise(Tables, "404"), "201")
       ELSE /\ LockFree(s, a)
            /\ locks' = [locks EXCEPT ![a] = s]
            /\ Goto(s, [c EXCEPT !.pc = "tx_write", !.v_balance = accounts[a].balance])

\* UPDATE accounts SET balance = $1 with the text or number JavaScript made
update_balance_param(w, acct, newBalance) ==
    IF w.err # Ok THEN w
    ELSE IF newBalance = Null THEN Raise(w, "invalid_text_representation")
    ELSE update_balance(w, acct, newBalance[1])

\* the rest of the handler: the type and funds checks, UPDATE, INSERT, COMMIT
api_transactions_write(s) ==
    /\ ses[s].pc = "tx_write"
    /\ LET c == ses[s]
           newBalance == IF c.type = "deposit" THEN JsBalancePlus(c.v_balance, c.amount)
                         ELSE Some(JsBalanceMinus(c.v_balance, c.amount))
           w1 == update_balance_param(Tables, c.acct, newBalance)
           w2 == insert_transaction(w1, c.acct, c.type, c.amount, Null, Null,
                                    uuid_generate_v4(txlog), Null, Null, <<"Request">>)
       IN  IF c.type = "withdrawal" /\ JsLess(c.v_balance, c.amount)
           THEN End(s, c, Raise(Tables, "400 Insufficient funds"), "201")
           ELSE IF c.type \notin {"deposit", "withdrawal"}
                THEN End(s, c, Raise(Tables, "400 Invalid transaction type"), "201")
           ELSE End(s, c, Catch(w2), "201")
    /\ UNCHANGED started

\* POST /api/transfers: BEGIN; the rows the SELECT ... = ANY($1) FOR UPDATE
\* will lock
api_transfers_begin(s, from, to, amt) ==
    /\ CanStart(s)
    /\ started' = started + 1
    /\ Goto(s, [Call("POST /api/transfers", from, to, amt, "transfer")
                   EXCEPT !.pc = "xt_lock", !.v_from_found = accounts[from].exists,
                          !.v_to_found = accounts[to].exists])
    /\ UNCHANGED locks

TransferRows(c) ==
    (IF c.v_from_found THEN {c.acct} ELSE {}) \cup (IF c.v_to_found THEN {c.to} ELSE {})

\* the next row the scan locks: rows come in the order of the scan, whatever
\* the order of the two numbers in the request
NextRow(s, c) ==
    LET todo == {a \in TransferRows(c) : locks[a] # s}
    IN  CHOOSE a \in todo : \A b \in todo : a <= b

\* SELECT ... FOR UPDATE takes one row lock
api_transfers_lock(s) ==
    /\ ses[s].pc = "xt_lock"
    /\ \E a \in TransferRows(ses[s]) : locks[a] # s
    /\ locks[NextRow(s, ses[s])] = Free
    /\ locks' = [locks EXCEPT ![NextRow(s, ses[s])] = s]
    /\ UNCHANGED <<accounts, txlog, limits, audit, alerts, users, ses, hist, started,
                   variable_conflict, page>>

\* the rest of the handler: the checks, both UPDATEs, both INSERTs, COMMIT
api_transfers_write(s) ==
    /\ ses[s].pc = "xt_lock"
    /\ \A a \in TransferRows(ses[s]) : locks[a] = s
    /\ LET c == ses[s]
           w1 == update_balance(Tables, c.acct, accounts[c.acct].balance - c.amount)
           w2 == update_balance(w1, c.to, w1.accounts[c.to].balance + c.amount)
           w3 == insert_transaction(w2, c.acct, "withdrawal", c.amount, Null, Null,
                                    uuid_generate_v4(w2.txlog), Null, Null,
                                    <<"Transfer to", c.to>>)
           w4 == insert_transaction(w3, c.to, "deposit", c.amount, Null, Null,
                                    uuid_generate_v4(w3.txlog), Null, Null,
                                    <<"Transfer from", c.acct>>)
       IN  IF Cardinality(TransferRows(c)) # 2 THEN End(s, c, Raise(Tables, "404"), "201")
           ELSE IF JsLess(accounts[c.acct].balance, c.amount)
                THEN End(s, c, Raise(Tables, "400 Insufficient funds"), "201")
           ELSE End(s, c, Catch(w4), "201")
    /\ UNCHANGED started

\* POST /api/accounts: INSERT INTO users, INSERT INTO accounts, the initial
\* deposit, COMMIT; e is the request's email and the new user's id, n the
\* account number that Date.now() and Math.random() happen to produce
api_accounts(s, e, initialDeposit, n) ==
    /\ CanStart(s)
    /\ started' = started + 1
    /\ LET c == Call("POST /api/accounts", n, e, initialDeposit, "none")
           w1 == IF e \in users THEN Raise(Tables, "unique_violation")
                 ELSE [Tables EXCEPT !.users = @ \cup {e}]
           row == AccountRow(e, initialDeposit, "active", 0)
           w2 == IF w1.err # Ok THEN w1
                 ELSE IF ~account_number_unique(accounts, n)
                      THEN Raise(w1, "unique_violation")
                 ELSE IF ~positive_balance(row) THEN Raise(w1, "check_violation")
                 ELSE [w1 EXCEPT !.accounts[n] = row]
           w3 == IF initialDeposit > 0
                 THEN insert_transaction(w2, n, "deposit", initialDeposit, Null, Null,
                                         uuid_generate_v4(txlog), Null, Null,
                                         <<"Initial deposit">>)
                 ELSE w2
       IN  End(s, c, Catch(w3), "201")

----------------------------------------------------------------------------
(* Lock waits.                                                              *)

\* the row lock the next statement of session s has to take
Wants(s) ==
    LET c == ses[s] IN
    CASE c.pc \in {"dep_insert", "wd_insert", "ca_update"} -> {c.acct}
      [] c.pc = "pt_lock_to" /\ FindsActive(c.to) -> {c.to}
      [] c.pc = "xt_lock" /\ (\E a \in TransferRows(c) : locks[a] # s) -> {NextRow(s, c)}
      [] OTHER -> {}

WaitsFor(s, t) == s # t /\ \E a \in Wants(s) : locks[a] = t

\* the server finds sessions s and t waiting for each other and makes the
\* statement of s fail
deadlock_detected(s) ==
    /\ \E t \in Sessions : WaitsFor(s, t) /\ WaitsFor(t, s)
    /\ End(s, ses[s], Raise(Tables, IF ses[s].op = "POST /api/transfers" THEN "500"
                                    ELSE "deadlock_detected"), "completed")
    /\ UNCHANGED started

----------------------------------------------------------------------------

Next ==
    \/ \E s \in Sessions, a \in AcctIds, amt \in Amounts : process_deposit_select(s, a, amt)
    \/ \E s \in Sessions : process_deposit_write(s)
    \/ \E s \in Sessions, a \in AcctIds, amt \in Amounts : process_withdrawal_select(s, a, amt)
    \/ \E s \in Sessions : process_withdrawal_limits(s)
    \/ \E s \in Sessions : process_withdrawal_validate(s)
    \/ \E s \in Sessions : process_withdrawal_write(s)
    \/ \E s \in Sessions, p \in TransferPairs, amt \in Amounts :
          process_transfer_lock_from(s, p[1], p[2], amt)
    \/ \E s \in Sessions : process_transfer_lock_to(s)
    \/ \E s \in Sessions : process_transfer_write(s)
    \/ \E s \in Sessions, a \in AcctIds : close_account_select(s, a)
    \/ \E s \in Sessions : close_account_write(s)
    \/ \E s \in Sessions, u \in UserIds, amt \in Amounts, n \in NewNumbers :
          create_account(s, u, amt, n)
    \/ \E s \in Sessions : reset_daily_limits(s)
    \/ DayPasses
    \/ \E s \in Sessions, a \in AcctIds, t \in RequestTypes, amt \in Amounts :
          api_transactions_select(s, a, t, amt)
    \/ \E s \in Sessions : api_transactions_write(s)
    \/ \E s \in Sessions, p \in TransferPairs, amt \in Amounts :
          api_transfers_begin(s, p[1], p[2], amt)
    \/ \E s \in Sessions : api_transfers_lock(s)
    \/ \E s \in Sessions : api_transfers_write(s)
    \/ \E s \in Sessions, e \in Emails, amt \in Amounts, n \in NewNumbers :
          api_accounts(s, e, amt, n)
    \/ \E s \in Sessions : deadlock_detected(s)

Spec == Init /\ [][Next]_vars

----------------------------------------------------------------------------
(* Properties.                                                              *)

Quiescent == \A s \in Sessions : ses[s].pc = "idle"

Succeeded(h) == h.result \in {"completed", "201", "true"}

IsDeposit(h) ==
    \/ h.op = "process_deposit"
    \/ h.op = "POST /api/transactions" /\ h.type = "deposit"

IsWithdrawal(h) ==
    \/ h.op = "process_withdrawal"
    \/ h.op = "POST /api/transactions" /\ h.type = "withdrawal"

IsTransfer(h) == h.op \in {"process_transfer", "POST /api/transfers"}

LedgerCall(h) == IsDeposit(h) \/ IsWithdrawal(h) \/ IsTransfer(h)

\* what a finished call adds to the total of all balances if it did what it is for
Net(h) ==
    IF ~Succeeded(h) THEN 0
    ELSE IF IsDeposit(h) THEN h.amount
    ELSE IF IsWithdrawal(h) THEN 0 - h.amount
    ELSE 0

RECURSIVE NetOf(_, _)
NetOf(hs, n) == IF n = 0 THEN 0 ELSE Net(hs[n]) + NetOf(hs, n - 1)

RECURSIVE PaidOut(_, _)
PaidOut(hs, n) ==
    IF n = 0 THEN 0
    ELSE (IF Succeeded(hs[n]) THEN hs[n].amount ELSE 0) + PaidOut(hs, n - 1)

OpeningTotal == Acct1Balance + Acct2Balance

\* the step ends a call: its outcome is the new last entry of hist
CallEnds == Len(hist') = Len(hist) + 1

EndedCall == hist'[Len(hist')]

\* C1: conservation. When no call is in flight and only deposits, withdrawals
\* and transfers have run, the balances add up to the opening total plus the
\* successful deposits minus the successful withdrawals.
C1_Conservation ==
    (Quiescent /\ \A i \in 1..Len(hist) : LedgerCall(hist[i]))
        => SumBal(accounts, AcctIds) = OpeningTotal + NetOf(hist, Len(hist))

\* C2: no double-spend. When only process_withdrawal calls with positive
\* amounts have run on account 1 and its overdraft limit is 0, the successful
\* amounts add up to at most the opening balance, every other call failed with
\* InsufficientFunds, and the balance is the opening balance minus the
\* successful amounts.
C2_NoDoubleSpend ==
    ( /\ Quiescent
      /\ accounts[1].overdraft_limit = 0
      /\ \A i \in 1..Len(hist) :
            hist[i].op = "process_withdrawal" /\ hist[i].acct = 1 /\ hist[i].amount > 0 )
        => /\ PaidOut(hist, Len(hist)) <= Acct1Balance
           /\ \A i \in 1..Len(hist) :
                 ~Succeeded(hist[i]) => hist[i].result = "InsufficientFunds"
           /\ accounts[1].balance = Acct1Balance - PaidOut(hist, Len(hist))

\* C3: no lost update. After two process_deposit calls with positive amounts
\* on account 1 and nothing else, both have succeeded and the balance is the
\* opening balance plus both amounts.
C3_NoLostDeposit ==
    ( /\ Quiescent
      /\ Len(hist) = 2
      /\ \A i \in 1..2 :
            hist[i].op = "process_deposit" /\ hist[i].acct = 1 /\ hist[i].amount > 0 )
        => /\ \A i \in 1..2 : hist[i].result = "completed"
           /\ accounts[1].balance = Acct1Balance + hist[1].amount + hist[2].amount

\* C4: deposits through POST /api/transactions. When only deposit requests
\* with positive amounts have run on account 1, every one was answered 201,
\* the balance is the opening balance plus all the amounts, and there is one
\* new completed transaction row for each.
C4_HttpDeposits ==
    ( /\ Quiescent
      /\ \A i \in 1..Len(hist) :
            /\ hist[i].op = "POST /api/transactions" /\ hist[i].type = "deposit"
            /\ hist[i].acct = 1 /\ hist[i].amount > 0 )
        => /\ \A i \in 1..Len(hist) : hist[i].result = "201"
           /\ accounts[1].balance = Acct1Balance + PaidOut(hist, Len(hist))
           /\ Cardinality({i \in 1..Len(txlog) : txlog[i].description = <<"Request">>})
                 = Len(hist)
           /\ \A i \in 1..Len(txlog) : txlog[i].status = "completed"

\* every debit leg of a transfer is followed at once by its credit leg, and
\* every credit leg follows its debit leg
LegsPaired ==
    \A i \in 1..Len(txlog) :
        /\ txlog[i].description[1] = "Transfer to"
             => /\ i < Len(txlog)
                /\ txlog[i + 1].description = <<"Transfer from", txlog[i].account_id>>
                /\ txlog[i + 1].account_id = txlog[i].description[2]
                /\ txlog[i + 1].amount = txlog[i].amount
        /\ txlog[i].description[1] = "Transfer from"
             => /\ i > 1
                /\ txlog[i - 1].description = <<"Transfer to", txlog[i].account_id>>

\* a step that ends a transfer either changes nothing or moves the whole amount
TransferStep ==
    (CallEnds /\ IsTransfer(EndedCall)) =>
        IF Succeeded(EndedCall)
        THEN /\ accounts'[EndedCall.acct].balance
                   = accounts[EndedCall.acct].balance - EndedCall.amount
             /\ accounts'[EndedCall.to].balance
                   = accounts[EndedCall.to].balance + EndedCall.amount
             /\ Len(txlog') = Len(txlog) + 2
        ELSE accounts' = accounts /\ txlog' = txlog

\* C5: transfer atomicity. A transfer that fails leaves the accounts and the
\* transaction log as they were, and no committed state holds one leg of a
\* transfer without the other.
C5_TransferAtomicity == [][TransferStep]_vars /\ []LegsPaired

\* a transfer failed after some of its statements had run
C5_Witness ==
    \E i \in 1..Len(hist) :
        /\ hist[i].op = "POST /api/transfers" /\ hist[i].result = "500"
        /\ hist[i].acct # hist[i].to /\ hist[i].amount > 0

\* C6: a valid transfer commits. When process_transfer reaches its checks
\* with two distinct active accounts, a positive amount and a source balance
\* that covers it, it ends completed, the amount has moved and the log has two
\* more rows.
C6_ValidTransferCommits ==
    [][\A s \in Sessions :
         ( /\ ses[s].pc = "pt_write" /\ ses'[s].pc = "idle"
           /\ ses[s].acct # ses[s].to /\ ses[s].amount > 0
           /\ ActiveAccount(ses[s].acct) /\ ActiveAccount(ses[s].to)
           /\ ses[s].v_from_found /\ ses[s].v_to_found
           /\ accounts[ses[s].acct].balance >= ses[s].amount )
         => /\ EndedCall.result = "completed"
            /\ accounts'[ses[s].acct].balance = accounts[ses[s].acct].balance - ses[s].amount
            /\ accounts'[ses[s].to].balance = accounts[ses[s].to].balance + ses[s].amount
            /\ Len(txlog') = Len(txlog) + 2]_vars

\* C7: deadlock freedom of transfers. No two transfers ever each hold a row
\* lock the other is waiting for.
C7_NoTransferDeadlock ==
    \A s, t \in Sessions :
        (IsTransfer(ses[s]) /\ IsTransfer(ses[t])) => ~(WaitsFor(s, t) /\ WaitsFor(t, s))

\* C8: balance floor. Every account's committed balance is at least minus its
\* overdraft limit.
C8_BalanceFloor ==
    \A a \in AcctIds :
        accounts[a].exists => accounts[a].balance >= 0 - accounts[a].overdraft_limit

\* a debit has taken an account down to the floor of its overdraft
C8_Witness ==
    \E a \in AcctIds :
        /\ accounts[a].exists /\ accounts[a].overdraft_limit > 0
        /\ accounts[a].balance = 0 - accounts[a].overdraft_limit
        /\ \E i \in 1..Len(hist) :
              IsWithdrawal(hist[i]) /\ hist[i].acct = a /\ Succeeded(hist[i])

\* C9: transfer legs. Every debit leg of a transfer has a credit leg with the
\* same reference number, each names the other's account as related account
\* and the other leg as related transaction.
C9_TransferLegsLinked ==
    \A i \in 1..Len(txlog) :
        txlog[i].description[1] = "Transfer to" =>
            \E j \in 1..Len(txlog) :
                /\ txlog[j].description[1] = "Transfer from"
                /\ txlog[j].reference_number = txlog[i].reference_number
                /\ txlog[i].related_account_id = Some(txlog[j].account_id)
                /\ txlog[j].related_account_id = Some(txlog[i].account_id)
                /\ txlog[i].related_transaction_id = Some(txlog[j].id)
                /\ txlog[j].related_transaction_id = Some(txlog[i].id)

\* C10: reference uniqueness. No two transaction rows carry the same
\* reference number.
C10_ReferenceUnique ==
    \A i, j \in 1..Len(txlog) :
        i # j => txlog[i].reference_number # txlog[j].reference_number

\* process_transfer tried to insert its second leg under the reference number
\* of the first
C10_Witness ==
    \E i \in 1..Len(hist) :
        hist[i].op = "process_transfer" /\ hist[i].result = "unique_violation"

\* C11: self-transfer rejection. Every step that ends a transfer from an
\* account to itself ends it with the SelfTransfer error (status 400 at the
\* API), leaves every table as it was and leaves no row lock with the session.
C11_SelfTransferRejected ==
    [][(CallEnds /\ IsTransfer(EndedCall) /\ EndedCall.acct = EndedCall.to) =>
          /\ EndedCall.result \in {"SelfTransfer", "400 SelfTransfer"}
          /\ UNCHANGED <<accounts, txlog, limits, audit, alerts, users>>
          /\ \A s \in Sessions :
                ses[s].pc # "idle" /\ ses'[s].pc = "idle" =>
                    \A a \in AcctIds : locks'[a] # s]_vars

\* C12: a permitted withdrawal succeeds. Every withdrawal request to
\* POST /api/transactions that holds its account's row lock with
\* 0 < amount <= balance is answered 201, takes the amount off the balance and
\* adds one completed withdrawal row.
C12_HttpWithdrawalSucceeds ==
    [][\A s \in Sessions :
         ( /\ ses[s].pc = "tx_write" /\ ses'[s].pc = "idle"
           /\ ses[s].type = "withdrawal"
           /\ ses[s].amount > 0
           /\ ses[s].amount <= accounts[ses[s].acct].balance )
         => /\ EndedCall.result = "201"
            /\ accounts'[ses[s].acct].balance
                  = accounts[ses[s].acct].balance - ses[s].amount
            /\ Len(txlog') = Len(txlog) + 1
            /\ txlog'[Len(txlog')].type = "withdrawal"
            /\ txlog'[Len(txlog')].amount = ses[s].amount
            /\ txlog'[Len(txlog')].status = "completed"]_vars

\* C13: daily limit. In every state every limit entry's current_usage is at
\* most its amount.
C13_DailyLimitKept ==
    \A a \in AcctIds, t \in LimitTypes :
        limits[a][t].exists => limits[a][t].current_usage <= limits[a][t].amount

WithdrawFailures == {"AccountNotFound", "InvalidAmount", "InsufficientFunds", "LimitExceeded"}

\* C14: a failed Withdraw has no side effects. Every step that ends a
\* process_withdrawal call with AccountNotFound, InvalidAmount,
\* InsufficientFunds or LimitExceeded leaves the accounts (balance and
\* last_transaction_at), the transaction log, the limit entries, the audit log
\* and the alerts unchanged.
C14_FailedWithdrawFrame ==
    [][(CallEnds /\ EndedCall.op = "process_withdrawal"
                 /\ EndedCall.result \in WithdrawFailures)
          => UNCHANGED <<accounts, txlog, limits, audit, alerts>>]_vars

\* one withdrawal was refused by the daily limit, another for its amount
C14_Witness ==
    \A r \in {"LimitExceeded", "InvalidAmount"} :
        \E i \in 1..Len(hist) : hist[i].op = "process_withdrawal" /\ hist[i].result = r

\* C15: closed accounts are empty. In every committed state an account whose
\* status is closed has balance 0.
C15_ClosedIsEmpty ==
    \A a \in AcctIds :
        (accounts[a].exists /\ accounts[a].status = "closed") => accounts[a].balance = 0

\* C16: close-account guard. A close_account call on a missing or non-active
\* account ends with AccountNotFound, on an active account whose balance is
\* not 0 with NonZeroBalance, both without changing the account or the audit
\* log; only on an active account with balance 0 does it go on, and it then
\* returns true, sets the status to closed and writes one audit entry
\* recording active -> closed.
C16_CloseGuard ==
    [][\A a \in AcctIds :
         /\ (started' = started + 1 /\ CallEnds /\ EndedCall.op = "close_account"
                 /\ EndedCall.acct = a)
              => /\ \/ ~ActiveAccount(a) /\ EndedCall.result = "AccountNotFound"
                    \/ /\ ActiveAccount(a) /\ accounts[a].balance # 0
                       /\ EndedCall.result = "NonZeroBalance"
                 /\ UNCHANGED <<accounts, audit>>
         /\ (\E s \in Sessions :
                ses[s].pc = "idle" /\ ses'[s].pc = "ca_update" /\ ses'[s].acct = a)
              => /\ ActiveAccount(a) /\ accounts[a].balance = 0
                 /\ UNCHANGED <<accounts, audit>>
         /\ (\E s \in Sessions :
                ses[s].pc = "ca_update" /\ ses[s].acct = a /\ ses'[s].pc = "idle")
              => /\ EndedCall.result = "true"
                 /\ accounts' = [accounts EXCEPT ![a].status = "closed",
                                                 ![a].closed = TRUE]
                 /\ audit' = Append(audit, AuditRow(a, "account_closed",
                                                    <<"active">>, <<"closed">>))]_vars

\* one close_account was refused for the balance, another closed its account
C16_Witness ==
    /\ \E i \in 1..Len(hist) :
          hist[i].op = "close_account" /\ hist[i].result = "NonZeroBalance"
    /\ \E i \in 1..Len(hist) :
          /\ hist[i].op = "close_account" /\ hist[i].result = "true"
          /\ accounts[hist[i].acct].status = "closed"

\* C17: only active accounts are mutated. No step changes the balance or the
\* status of an account whose status is not active, nor adds a transaction
\* row for it.
C17_OnlyActiveMutated ==
    [][\A a \in AcctIds :
         (accounts[a].exists /\ accounts[a].status # "active") =>
            /\ accounts'[a].balance = accounts[a].balance
            /\ accounts'[a].status = accounts[a].status
            /\ \A i \in (Len(txlog) + 1)..Len(txlog') : txlog'[i].account_id # a]_vars

\* what the first n rows of the log add up to for account a: +amount for a
\* deposit, -amount for a withdrawal or transfer
RECURSIVE LogSum(_, _, _)
LogSum(log, a, n) ==
    IF n = 0 THEN 0
    ELSE LogSum(log, a, n - 1)
         + (IF log[n].account_id # a \/ log[n].status # "completed" THEN 0
            ELSE IF log[n].type \in {"deposit", "interest", "refund"} THEN log[n].amount
            ELSE 0 - log[n].amount)

\* C18: balance/log consistency. When no call is in flight, every account's
\* balance is the sum of its completed transactions.
C18_BalanceMatchesLog ==
    Quiescent =>
        \A a \in AcctIds :
            accounts[a].exists => accounts[a].balance = LogSum(txlog, a, Len(txlog))

\* the positions of the balance_change entries of account a in the audit log
BalanceChanges(aud, a) ==
    {i \in 1..Len(aud) : aud[i].account_id = a /\ aud[i].action = "balance_change"}

\* a step that changes a balance adds exactly one balance_change entry for
\* the account, with the balance before and after; a step that does not adds
\* none; a call that failed adds no audit entry at all
AuditStep ==
    /\ \A a \in AcctIds :
         LET added == {i \in BalanceChanges(audit', a) : i > Len(audit)} IN
         IF accounts[a].exists /\ accounts'[a].balance # accounts[a].balance
         THEN /\ Cardinality(added) = 1
              /\ \A i \in added :
                    /\ audit'[i].old_values = Some(accounts[a].balance)
                    /\ audit'[i].new_values = Some(accounts'[a].balance)
         ELSE added = {}
    /\ (CallEnds /\ ~Succeeded(EndedCall)) => audit' = audit
    /\ \A i \in 1..Len(audit) : i <= Len(audit') /\ audit'[i] = audit[i]

\* the newest balance_change entry of every account names its current balance
AuditCurrent ==
    \A a \in AcctIds :
        BalanceChanges(audit, a) # {} =>
            audit[MaxOf(BalanceChanges(audit, a))].new_values = Some(accounts[a].balance)

\* C19: the audit trail never diverges. Every committed change of a balance
\* comes with exactly one balance_change entry holding the balance before and
\* after, a failed call leaves no entry, and the newest balance_change entry
\* of an account names its current balance.
C19_AuditTrail == [][AuditStep]_vars /\ []AuditCurrent

\* a request failed after its UPDATE of the balance had run, and another
\* call's change of a balance was committed and logged
C19_Witness ==
    /\ \E i \in 1..Len(hist) :
          /\ hist[i].op = "POST /api/transactions" /\ hist[i].type = "withdrawal"
          /\ hist[i].result = "500"
    /\ \E i \in 1..Len(hist), a \in AcctIds :
          /\ Succeeded(hist[i]) /\ IsDeposit(hist[i]) /\ hist[i].acct = a
          /\ BalanceChanges(audit, a) # {}
          /\ audit[Len(audit)].account_id = a

IsCreation(h) == h.op \in {"create_account", "POST /api/accounts"}

\* C20: account number uniqueness with atomic creation. A creation succeeds
\* only with a number no account has; one whose number is taken fails and
\* leaves users, accounts, transactions, limits and audit log as they were;
\* and no step takes an account's number away or gives it to another owner.
C20_AccountNumberUnique ==
    [][/\ (CallEnds /\ IsCreation(EndedCall)) =>
             /\ Succeeded(EndedCall) =>
                   /\ ~accounts[EndedCall.acct].exists
                   /\ accounts'[EndedCall.acct].exists
             /\ accounts[EndedCall.acct].exists =>
                   /\ ~Succeeded(EndedCall)
                   /\ UNCHANGED <<users, accounts, txlog, limits, audit>>
       /\ \A a \in AcctIds :
             accounts[a].exists =>
                 accounts'[a].exists /\ accounts'[a].user = accounts[a].user]_vars

\* one creation was refused because its number was taken, another opened an
\* account under a new number
C20_Witness ==
    /\ \E i \in 1..Len(hist) :
          hist[i].op = "create_account" /\ hist[i].result = "unique_violation"
    /\ \E i \in 1..Len(hist) :
          /\ IsCreation(hist[i]) /\ Succeeded(hist[i])
          /\ accounts[hist[i].acct].exists

\* the rows a step adds to the transaction log
NewRows == {i \in 1..Len(txlog') : i > Len(txlog)}

\* C21: CreateAccount initial state. A creation that succeeds leaves the new
\* account active with balance = initial balance, with exactly one completed
\* deposit row (amount = initial balance, balance_before 0, balance_after =
\* initial balance) if the initial balance is positive and no row if it is 0;
\* a creation with a negative initial balance or, through create_account, a
\* user that does not exist fails; and a creation that fails creates nothing.
C21_CreateAccountInitialState ==
    [][(CallEnds /\ IsCreation(EndedCall)) =>
          LET n == EndedCall.acct
              initial == EndedCall.amount
          IN  /\ (initial < 0) => ~Succeeded(EndedCall)
              /\ (EndedCall.op = "create_account" /\ EndedCall.to \notin users)
                    => ~Succeeded(EndedCall)
              /\ ~Succeeded(EndedCall) =>
                    UNCHANGED <<users, accounts, txlog, limits, audit, alerts>>
              /\ Succeeded(EndedCall) =>
                    /\ accounts'[n].exists /\ accounts'[n].status = "active"
                    /\ accounts'[n].balance = initial
                    /\ Cardinality(NewRows) = (IF initial > 0 THEN 1 ELSE 0)
                    /\ \A i \in NewRows :
                          /\ txlog'[i].account_id = n /\ txlog'[i].type = "deposit"
                          /\ txlog'[i].status = "completed"
                          /\ txlog'[i].amount = initial
                          /\ txlog'[i].balance_before = Some(0)
                          /\ txlog'[i].balance_after = Some(initial)]_vars

\* the audit entries that record the creation of account n
CreationEntries(log, n) ==
    {i \in 1..Len(log) : log[i].account_id = n /\ log[i].action = "account_created"}

\* C22: default limits. A creation that succeeds, through create_account or
\* through POST /api/accounts, leaves the new account with one daily_withdrawal,
\* one daily_transfer and one single_transaction limit entry, each with usage
\* 0, and with exactly one account_created audit entry.
C22_DefaultLimits ==
    [][(CallEnds /\ IsCreation(EndedCall) /\ Succeeded(EndedCall)) =>
          LET n == EndedCall.acct
          IN  /\ \A t \in LimitTypes :
                    limits'[n][t].exists /\ limits'[n][t].current_usage = 0
              /\ Cardinality(CreationEntries(audit', n)) = 1]_vars

----------------------------------------------------------------------------
(* The reference scenario: one client, three calls one after the other.     *)

\* the calls of the scenario
ScenarioOps == 3

\* account 1 opened with nothing, account 2 opened with 500.00
ScenarioOpened ==
    [accounts |-> [a \in AcctIds |->
                     CASE a = 1 -> AccountRow(1, 0, "active", 0)
                       [] a = 2 -> update_last_transaction(
                                      AccountRow(1, 500 * 100, "active", 0), 1)
                       [] OTHER -> NoAccount],
     txlog |-> InitialDeposit(<< >>, 2, 500 * 100),
     limits |-> [a \in AcctIds |-> IF a \in {1, 2} THEN DefaultLimits ELSE NoLimits],
     audit |-> << AuditRow(1, "account_created", Null, Some(0)),
                  AuditRow(2, "account_created", Null, Some(500 * 100)) >>,
     alerts |-> << >>, users |-> {1}, err |-> Ok]

\* the call counter starts so that CanStart admits exactly ScenarioOps calls
ScenarioInit ==
    /\ variable_conflict \in VariableConflicts
    /\ accounts = ScenarioOpened.accounts
    /\ txlog = ScenarioOpened.txlog
    /\ limits = ScenarioOpened.limits
    /\ audit = ScenarioOpened.audit
    /\ alerts = << >>
    /\ users = {1}
    /\ locks = [a \in AcctIds |-> Free]
    /\ ses = [s \in Sessions |-> Idle]
    /\ hist = << >>
    /\ started = MaxOps - ScenarioOps
    /\ page = script_loaded(Null)

\* Deposit(1, 1000.00), Withdraw(1, 300.00), Transfer(1, 2, 200.00), each
\* through the stored function or through the HTTP API
ScenarioNext ==
    \/ /\ started = MaxOps - ScenarioOps
       /\ \/ process_deposit_select(1, 1, 1000 * 100)
          \/ api_transactions_select(1, 1, "deposit", 1000 * 100)
    \/ /\ started = MaxOps - ScenarioOps + 1
       /\ \/ process_withdrawal_select(1, 1, 300 * 100)
          \/ api_transactions_select(1, 1, "withdrawal", 300 * 100)
    \/ /\ started = MaxOps - ScenarioOps + 2
       /\ \/ process_transfer_lock_from(1, 1, 2, 200 * 100)
          \/ api_transfers_begin(1, 1, 2, 200 * 100)
    \/ process_deposit_write(1)
    \/ process_withdrawal_limits(1)
    \/ process_withdrawal_validate(1)
    \/ process_withdrawal_write(1)
    \/ process_transfer_lock_to(1)
    \/ process_transfer_write(1)
    \/ api_transactions_write(1)
    \/ api_transfers_lock(1)
    \/ api_transfers_write(1)

ScenarioSpec == ScenarioInit /\ [][ScenarioNext]_vars

\* C23: reference scenario. From account 1 at 0 and account 2 at 500.00,
\* Deposit(1, 1000.00), Withdraw(1, 300.00), Transfer(1, 2, 200.00) each
\* succeed, and leave account 1 at 500.00, account 2 at 700.00 and four
\* transaction rows more than the log had.
C23_ReferenceScenario ==
    (Len(hist) = ScenarioOps) =>
        /\ \A i \in 1..ScenarioOps : Succeeded(hist[i])
        /\ accounts[1].balance = 500 * 100
        /\ accounts[2].balance = 700 * 100
        /\ Len(txlog) = Len(ScenarioOpened.txlog) + 4

\* C24: overdraft prevention at the API. A withdrawal request for more than
\* the balance of its account is answered 400 'Insufficient funds' and leaves
\* the accounts and the transaction log as they were.
C24_ApiOverdraftRefused ==
    [][(/\ CallEnds
        /\ EndedCall.op = "POST /api/transactions"
        /\ EndedCall.type = "withdrawal"
        /\ accounts[EndedCall.acct].exists
        /\ EndedCall.amount > accounts[EndedCall.acct].balance)
          => /\ EndedCall.result = "400 Insufficient funds"
             /\ UNCHANGED <<accounts, txlog, limits, audit, alerts>>]_vars

\* a withdrawal request for more than the balance has been answered
C24_Witness ==
    \E i \in 1..Len(hist) :
        /\ hist[i].op = "POST /api/transactions" /\ hist[i].type = "withdrawal"
        /\ hist[i].result = "400 Insufficient funds"
        /\ accounts[hist[i].acct].exists
        /\ hist[i].amount > accounts[hist[i].acct].balance

----------------------------------------------------------------------------
(* Progress.  A PostgreSQL backend runs the statement it was given as soon  *)
(* as the row lock it needs is free, and the event loop of the server runs  *)
(* the continuation of every await: a call that can take its next step      *)
(* takes it.                                                                *)

\* the next statement of the call that session s is running
Continue(s) ==
    \/ process_deposit_write(s)
    \/ process_withdrawal_limits(s)
    \/ process_withdrawal_validate(s)
    \/ process_withdrawal_write(s)
    \/ process_transfer_lock_to(s)
    \/ process_transfer_write(s)
    \/ close_account_write(s)
    \/ api_transactions_write(s)
    \/ api_transfers_lock(s)
    \/ api_transfers_write(s)
    \/ deadlock_detected(s)

\* Continue(s) is enabled: the call is not waiting for a row lock, or the
\* deadlock detector ends its wait
CanStep(s) ==
    /\ ses[s].pc # "idle"
    /\ \/ \A a \in Wants(s) : LockFree(s, a)
       \/ \E t \in Sessions : WaitsFor(s, t) /\ WaitsFor(t, s)

\* weak fairness of Continue(s), WF_vars(Continue(s)), written out with its
\* enabling condition
Fair(s) == []<>(~CanStep(s)) \/ []<><<Continue(s)>>_vars

FairSpec == Spec /\ \A s \in Sessions : Fair(s)

\* the step ends a call that waited for a row lock it could not get: the
\* holder of that lock was waiting for a lock of the call
LockNotAcquired ==
    \E s \in Sessions :
        /\ ses[s].pc # "idle" /\ ses'[s].pc = "idle"
        /\ \E t \in Sessions : WaitsFor(s, t) /\ WaitsFor(t, s)

\* every call that has started ends
EveryCallEnds == \A s \in Sessions : (ses[s].pc # "idle") ~> (ses[s].pc = "idle")

\* C26: bounded lock wait. A call that cannot get a row lock ends with the
\* retryable conflict error, with no change to any table and no lock held by
\* its session; and every call that has started ends.
C26_BoundedLockWait ==
    /\ [][(CallEnds /\ LockNotAcquired) =>
             /\ EndedCall.result = "deadlock_detected"
             /\ UNCHANGED <<accounts, txlog, limits, audit, alerts, users>>
             /\ \A s \in Sessions :
                   (ses[s].pc # "idle" /\ ses'[s].pc = "idle")
                      => \A a \in AcctIds : locks'[a] # s]_vars
    /\ EveryCallEnds

\* the limit entries whose reset_at has been reached
DueEntries ==
    {<<a, t>> \in AcctIds \X LimitTypes :
        limits[a][t].exists /\ limits[a][t].reset_at = "past"}

\* C27: limit reset. reset_daily_limits sets the usage of every limit entry
\* whose reset_at has been reached to 0 and moves its reset_at ahead, leaves
\* every other entry (reset_at ahead or not set, whatever its period) as it
\* was, and returns the number of entries it reset.
C27_LimitReset ==
    [][(CallEnds /\ EndedCall.op = "reset_daily_limits") =>
          /\ \A a \in AcctIds, t \in LimitTypes :
                IF <<a, t>> \in DueEntries
                THEN /\ limits'[a][t].current_usage = 0
                     /\ limits'[a][t].reset_at = "future"
                ELSE limits'[a][t] = limits[a][t]
          /\ EndedCall.v_count = Cardinality(DueEntries)]_vars

\* C28: non-positive amounts rejected. A deposit or withdrawal of an amount
\* <= 0 on an active account is rejected as InvalidAmount, by POST
\* /api/transactions with status 400, and changes nothing.
C28_NonPositiveRejected ==
    [][(/\ CallEnds
        /\ IsDeposit(EndedCall) \/ IsWithdrawal(EndedCall)
        /\ ActiveAccount(EndedCall.acct)
        /\ EndedCall.amount <= 0)
          => /\ IF EndedCall.op = "POST /api/transactions"
                THEN EndedCall.result \in {"400 Insufficient funds",
                                           "400 Invalid transaction type"}
                ELSE EndedCall.result = "InvalidAmount"
             /\ UNCHANGED <<accounts, txlog, limits, audit, alerts>>]_vars

\* C29: invalid transaction type rejected. A POST /api/transactions request
\* whose type is neither deposit nor withdrawal is answered 400, whether its
\* account number exists or not, and changes nothing.
C29_InvalidTypeRejected ==
    [][(/\ CallEnds
        /\ EndedCall.op = "POST /api/transactions"
        /\ EndedCall.type \notin {"deposit", "withdrawal"})
          => /\ EndedCall.result = "400 Invalid transaction type"
             /\ UNCHANGED <<accounts, txlog, limits, audit, alerts, users>>]_vars

----------------------------------------------------------------------------
(* Failures of the surroundings: a statement that the database cannot run,  *)
(* a connection that cannot be had or is lost.                              *)

\* INSERT INTO alerts raises (no room left, the connection of a foreign key
\* check lost, ...) in a call whose other statements went through: there is
\* no EXCEPTION block around it, the error leaves the function
alert_insert_fails(s) ==
    /\ ses[s].pc \in {"dep_insert", "wd_insert", "pt_write"}
    /\ \A a \in Wants(s) : LockFree(s, a)
    /\ LET c == ses[s]
           w == CASE c.pc = "dep_insert" -> process_deposit_body(c)
                  [] c.pc = "wd_insert" -> process_withdrawal_body(c)
                  [] OTHER -> process_transfer_body(Tables, c)
       IN  /\ c.pc = "pt_write" => c.v_from_found /\ c.v_to_found /\ c.v_balance >= c.amount
           /\ w.err = Ok
           /\ Len(w.alerts) > Len(alerts)
           /\ End(s, c, Raise(w, "alert_failed"), "completed")
    /\ UNCHANGED started

\* what the client gets when a handler's promise is rejected: Express 4
\* never answers, Express 5 answers with its default error page
Unhandled == {"no response", "500 text/html"}

\* the requests whose handler starts with await pool.connect(), before try
PostRequests ==
    {Call("POST /api/accounts", 3, 2, 50 * 100, "none"),
     Call("POST /api/transactions", 1, 0, 50 * 100, "deposit"),
     Call("POST /api/transfers", 1, 2, 50 * 100, "transfer")}

\* pool.connect() rejects: the handler throws outside its try block
pool_connect_rejects(s, c, answer) ==
    /\ CanStart(s)
    /\ started' = started + 1
    /\ End(s, c, Raise(Tables, answer), "201")

\* the connection is lost while a handler holds it: the query rejects, the
\* ROLLBACK in the catch block rejects too and the handler throws; the
\* server ends the transaction
client_query_rejects(s, answer) ==
    /\ ses[s].pc \in {"tx_write", "xt_lock"}
    /\ End(s, ses[s], Raise(Tables, answer), "201")
    /\ UNCHANGED started

\* GET /api/accounts/:accountNumber when pool.query rejects: the catch block
\* answers 500
pool_query_rejects(s, a) ==
    /\ CanStart(s)
    /\ started' = started + 1
    /\ End(s, Call("GET /api/accounts", a, 0, 0, "none"), Raise(Tables, "500"), "200")

ConnectionFails ==
    \/ \E s \in Sessions, c \in PostRequests, answer \in Unhandled :
          pool_connect_rejects(s, c, answer)
    \/ \E s \in Sessions, answer \in Unhandled : client_query_rejects(s, answer)
    \/ \E s \in Sessions, a \in AcctIds : pool_query_rejects(s, a)

FaultNext ==
    \/ Next
    \/ \E s \in Sessions : alert_insert_fails(s)
    \/ ConnectionFails

FaultSpec == Init /\ [][FaultNext]_vars

\* C25: alerts cannot undo money movement. A deposit, withdrawal or transfer
\* whose alert cannot be written still succeeds.
C25_AlertFailureIsolated ==
    [][(\E s \in Sessions : alert_insert_fails(s)) =>
          CallEnds /\ Succeeded(EndedCall)]_vars

\* C30: database connection failure is answered. A request whose connection
\* cannot be had or is lost is answered 500 with success = false, and no
\* table changes.
C30_ConnectionFailureAnswered ==
    [][ConnectionFails =>
          /\ CallEnds /\ EndedCall.result = "500"
          /\ UNCHANGED <<accounts, txlog, limits, audit, alerts, users>>]_vars

\* a request that debits its account acct through the API
ApiDebit(h) ==
    \/ h.op = "POST /api/transactions" /\ h.type = "withdrawal"
    \/ h.op = "POST /api/transfers"

\* nothing but debiting requests has run or is running
OnlyApiDebits ==
    /\ \A i \in 1..Len(hist) : ApiDebit(hist[i])
    /\ \A s \in Sessions : ses[s].pc = "idle" \/ ApiDebit(ses[s])

\* what the successful requests took from account a, and what the successful
\* transfers gave to it
RECURSIVE Debited(_, _, _)
Debited(hs, n, a) ==
    IF n = 0 THEN 0
    ELSE (IF Succeeded(hs[n]) /\ hs[n].acct = a THEN hs[n].amount ELSE 0)
         + Debited(hs, n - 1, a)

RECURSIVE Credited(_, _, _)
Credited(hs, n, a) ==
    IF n = 0 THEN 0
    ELSE (IF Succeeded(hs[n]) /\ hs[n].op = "POST /api/transfers" /\ hs[n].to = a
          THEN hs[n].amount ELSE 0)
         + Credited(hs, n - 1, a)

OpeningBalance(a) == IF a = 1 THEN Acct1Balance ELSE IF a = 2 THEN Acct2Balance ELSE 0

\* C31: no overdraft through the API under concurrency. While only withdrawal
\* requests to POST /api/transactions and requests to POST /api/transfers run,
\* in any order and overlapping, the successful debits of an account add up to
\* at most its opening balance plus what it received, and no committed balance
\* is negative.
C31_ApiNoOverdraft ==
    OnlyApiDebits =>
        \A a \in AcctIds :
            accounts[a].exists =>
                /\ accounts[a].balance >= 0
                /\ Debited(hist, Len(hist), a)
                      <= OpeningBalance(a) + Credited(hist, Len(hist), a)

\* two debits of account 1: the first took all of it, the second, for an
\* amount the opening balance would have covered, was refused
C31_Witness ==
    /\ OnlyApiDebits
    /\ Len(hist) = 2
    /\ hist[1].acct = 1 /\ Succeeded(hist[1]) /\ hist[1].amount = Acct1Balance
    /\ hist[2].acct = 1 /\ hist[2].result = "400 Insufficient funds"
    /\ hist[2].amount > 0 /\ hist[2].amount <= Acct1Balance

\* C32: transfer funds boundary includes overdraft. A transfer is refused
\* for lack of funds only when the balance of its source less the amount is
\* below minus the overdraft limit of the source, the boundary of a
\* withdrawal, and a transfer that succeeds is within that boundary.
C32_TransferOverdraftBoundary ==
    [][(CallEnds /\ IsTransfer(EndedCall)) =>
          LET from == accounts[EndedCall.acct]
              short == from.balance - EndedCall.amount < 0 - from.overdraft_limit
          IN  /\ EndedCall.result \in {"InsufficientFunds", "400 Insufficient funds"}
                    => short
              /\ Succeeded(EndedCall) => ~short]_vars

\* C33: transfers count against the transfer limit. A transfer that succeeds
\* adds its amount to the usage of the daily_transfer limit entry of its
\* source account in the same step.
C33_TransferUsageCounted ==
    [][(CallEnds /\ IsTransfer(EndedCall) /\ Succeeded(EndedCall)) =>
          limits'[EndedCall.acct].daily_transfer.current_usage
             = limits[EndedCall.acct].daily_transfer.current_usage + EndedCall.amount]_vars

\* C34: transaction record arithmetic. Every transaction row that a step
\* adds has amount > 0, balance_before = the balance its account had just
\* before the step, and balance_after = balance_before + amount for a
\* deposit, balance_before - amount for a withdrawal.
C34_RecordArithmetic ==
    [][\A i \in NewRows :
          LET row == txlog'[i]
              before == accounts[row.account_id].balance
          IN  /\ row.amount > 0
              /\ row.balance_before = Some(before)
              /\ row.balance_after = Some(IF row.type = "deposit"
                                          THEN before + row.amount
                                          ELSE before - row.amount)]_vars

\* the rows of account a in the order of their ids
RowsOf(a) == SelectSeq(txlog, LAMBDA r : r.account_id = a)

LedgerFunctions == {"process_deposit", "process_withdrawal", "process_transfer"}

\* C35: per-account balance chain. While only process_deposit,
\* process_withdrawal and process_transfer run, in any order and overlapping,
\* each row of an account has as balance_before the balance_after of the row
\* before it, and the last row has as balance_after the balance of the account.
C35_BalanceChain ==
    ( /\ \A i \in 1..Len(hist) : hist[i].op \in LedgerFunctions
      /\ \A s \in Sessions : ses[s].pc = "idle" \/ ses[s].op \in LedgerFunctions )
        => \A a \in AcctIds :
              LET rows == RowsOf(a) IN
              /\ \A k \in 2..Len(rows) : rows[k].balance_before = rows[k - 1].balance_after
              /\ Len(rows) > 0 => rows[Len(rows)].balance_after = Some(accounts[a].balance)

\* C36: usage accounting. The usage of an account's daily_withdrawal entry,
\* where the account has one,
\* grows by the amount of each process_withdrawal call that succeeds on the
\* account, goes to 0 or stays when reset_daily_limits runs, and is changed
\* by nothing else: it is the sum of the successful withdrawals since the
\* entry was last reset. A failed withdrawal adds nothing.
C36_UsageAccounting ==
    [][\A a \in {n \in AcctIds : limits[n].daily_withdrawal.exists} :
          LET before == limits[a].daily_withdrawal.current_usage
              after == limits'[a].daily_withdrawal.current_usage
          IN  IF CallEnds /\ EndedCall.op = "process_withdrawal" /\ EndedCall.acct = a
                 /\ Succeeded(EndedCall)
              THEN after = before + EndedCall.amount
              ELSE IF CallEnds /\ EndedCall.op = "reset_daily_limits"
                   THEN after \in {0, before}
                   ELSE after = before]_vars

\* a reset that zeroed entries, then a withdrawal from account 1: the usage
\* is the amount of that withdrawal
C36_Witness ==
    /\ Len(hist) = 2
    /\ hist[1].op = "reset_daily_limits" /\ hist[1].v_count > 0
    /\ hist[2].op = "process_withdrawal" /\ hist[2].acct = 1 /\ Succeeded(hist[2])
    /\ limits[1].daily_withdrawal.current_usage = hist[2].amount

\* a request to one of the handlers that take a pooled connection
ApiPost(h) ==
    h.op \in {"POST /api/accounts", "POST /api/transactions", "POST /api/transfers"}

C38_LogAppendOnly ==
    [][/\ Len(txlog') >= Len(txlog)
       /\ \A i \in 1..Len(txlog) : txlog'[i] = txlog[i]
       /\ NewRows # {} =>
             /\ CallEnds /\ Succeeded(EndedCall)
             /\ EndedCall.op \notin {"close_account", "reset_daily_limits"}
             /\ \A i \in NewRows :
                   txlog'[i].account_id \in {EndedCall.acct, EndedCall.to}]_vars

\* two calls have each added their rows behind the opening deposit
C38_Witness ==
    /\ Len(hist) = 2 /\ Succeeded(hist[1]) /\ Succeeded(hist[2])
    /\ IsDeposit(hist[1]) /\ IsTransfer(hist[2])
    /\ Len(txlog) = 4
    /\ txlog[1].description = <<"Initial deposit">>
    /\ txlog[2].description = <<"Deposit">>

\* the alerts stored by the step
AlertsAdded == SubSeq(alerts', Len(alerts) + 1, Len(alerts'))

\* a process_transfer that has found both accounts and passes the funds check
TransferPassesChecks(s) ==
    /\ ses[s].pc = "pt_write" /\ ses'[s].pc = "idle"
    /\ ses[s].v_from_found /\ ses[s].v_to_found
    /\ ses[s].v_balance >= ses[s].amount

DepositAlertRule ==
    (CallEnds /\ EndedCall.op = "process_deposit" /\ Succeeded(EndedCall)) =>
        AlertsAdded = IF EndedCall.amount > LargeDeposit
                      THEN <<AlertRow(accounts[EndedCall.acct].user, EndedCall.acct,
                                      "large_transaction")>>
                      ELSE <<>>

WithdrawalAlertRule ==
    (CallEnds /\ EndedCall.op = "process_withdrawal" /\ Succeeded(EndedCall)) =>
        AlertsAdded = IF accounts'[EndedCall.acct].balance < LowBalance
                      THEN <<AlertRow(accounts[EndedCall.acct].user, EndedCall.acct,
                                      "low_balance")>>
                      ELSE <<>>

FailedStoresNoAlert ==
    (CallEnds /\ EndedCall.op \in LedgerFunctions /\ ~Succeeded(EndedCall)) =>
        alerts' = alerts

TransferAlertRule ==
    \A s \in Sessions :
        TransferPassesChecks(s) =>
            AlertsAdded = <<AlertRow(accounts[ses[s].to].user, ses[s].to,
                                     "transfer_received")>>

\* the rules of process_deposit and process_withdrawal and of failed calls
AlertRulesWithoutTransfer ==
    [][DepositAlertRule /\ WithdrawalAlertRule /\ FailedStoresNoAlert]_vars

\* a withdrawal has ended on exactly LowBalance and stored no alert
BoundaryWithdrawalReached ==
    \E i \in 1..Len(hist) :
        /\ hist[i].op = "process_withdrawal" /\ Succeeded(hist[i])
        /\ Len(hist) = i /\ accounts[hist[i].acct].balance = LowBalance
        /\ Len(alerts) = 0

----------------------------------------------------------------------------
(* script.js, the web page.  Every handler reaches the backend through     *)
(* useAPI; requests notes, for each such call, the method, the object that *)
(* served it and the value of state.isDemo at the time of the call.        *)

dbvars == <<accounts, txlog, limits, audit, alerts, users, locks, ses, hist, started,
            variable_conflict>>

\* initialDeposit: 1000 of the sign-up form, in cents
FormDeposit == 100000

Noted(p, method) ==
    [p EXCEPT !.requests = Append(@, [method |-> method, by |-> p.useAPI,
                                      isDemo |-> p.state.isDemo])]

\* what a method of api or demoAPI comes to: a result, or a thrown Error
Result(store, balance) == [ok |-> TRUE, accounts |-> store, balance |-> balance]

Thrown(store) == [ok |-> FALSE, accounts |-> store, balance |-> 0]

\* the methods of api: a fetch, which the network answers or not
api_fetch(p, answer, balance) ==
    IF answer = "ok" THEN Result(p.accounts, balance) ELSE Thrown(p.accounts)

\* the methods of demoAPI, on its Map of accounts
demoAPI_createAccount(p, n) ==
    Result([p.accounts EXCEPT ![n] = Some(FormDeposit)], FormDeposit)

demoAPI_getAccount(p, n) ==
    IF p.accounts[n] = Null THEN Thrown(p.accounts)
    ELSE Result(p.accounts, p.accounts[n][1])

demoAPI_createTransaction(p, n, type, amount) ==
    IF p.accounts[n] = Null THEN Thrown(p.accounts)
    ELSE IF type = "withdrawal" /\ p.accounts[n][1] < amount THEN Thrown(p.accounts)
    ELSE LET newBalance == IF type = "deposit" THEN p.accounts[n][1] + amount
                           ELSE p.accounts[n][1] - amount
         IN  Result([p.accounts EXCEPT ![n] = Some(newBalance)], newBalance)

demoAPI_transfer(p, from, to, amount) ==
    IF p.accounts[from] = Null \/ p.accounts[to] = Null THEN Thrown(p.accounts)
    ELSE IF p.accounts[from][1] < amount THEN Thrown(p.accounts)
    ELSE LET debited == [p.accounts EXCEPT ![from] = Some(@[1] - amount)]
         IN  Result([debited EXCEPT ![to] = Some(@[1] + amount)], 0)

\* useAPI.createAccount(...), useAPI.getAccount(...) and so on
useAPI_createAccount(p, n, answer) ==
    IF p.useAPI = "demoAPI" THEN demoAPI_createAccount(p, n)
    ELSE api_fetch(p, answer, FormDeposit)

useAPI_getAccount(p, n, answer, balance) ==
    IF p.useAPI = "demoAPI" THEN demoAPI_getAccount(p, n)
    ELSE api_fetch(p, answer, balance)

useAPI_createTransaction(p, n, type, amount, answer, balance) ==
    IF p.useAPI = "demoAPI" THEN demoAPI_createTransaction(p, n, type, amount)
    ELSE api_fetch(p, answer, balance)

useAPI_transfer(p, from, to, amount, answer) ==
    IF p.useAPI = "demoAPI" THEN demoAPI_transfer(p, from, to, amount)
    ELSE api_fetch(p, answer, 0)

loadTransactions(p) == Noted(p, "getTransactions")

\* state.currentAccount = result.data; state.isLoggedIn = true; showDashboard()
LoggedIn(p, n, balance) ==
    loadTransactions([p EXCEPT !.state.currentAccount =
                                   Some([accountNumber |-> n, balance |-> balance]),
                               !.state.isLoggedIn = TRUE])

\* state.currentAccount.balance = ...; await loadTransactions()
Refreshed(p, balance) ==
    loadTransactions([p EXCEPT !.state.currentAccount[1].balance = balance])

\* initializeApp up to checkSession: the health probe comes back
initializeApp(healthy) ==
    /\ page.step = "probe"
    /\ page' = [page EXCEPT !.state.isDemo = ~healthy, !.step = "session"]
    /\ UNCHANGED dbvars

\* checkSession
checkSession(answer, balance) ==
    /\ page.step = "session"
    /\ LET stored == page.localStorage
           p0 == [page EXCEPT !.step = "ready"]
       IN  IF stored = Null THEN page' = p0
           ELSE LET r == useAPI_getAccount(p0, stored[1], answer, balance)
                    p1 == [Noted(p0, "getAccount") EXCEPT !.accounts = r.accounts]
                IN  page' = IF r.ok THEN LoggedIn(p1, stored[1], r.balance)
                            ELSE [p1 EXCEPT !.localStorage = Null]
    /\ UNCHANGED dbvars

\* the sign-up form, with all its fields filled
signup_submit(n, answer) ==
    /\ page.handled < MaxSubmits
    /\ LET r == useAPI_createAccount(page, n, answer)
           p1 == [Noted(page, "createAccount") EXCEPT !.accounts = r.accounts,
                                                      !.handled = @ + 1]
       IN  page' = IF r.ok THEN LoggedIn([p1 EXCEPT !.localStorage = Some(n)], n, r.balance)
                   ELSE p1
    /\ UNCHANGED dbvars

\* the deposit form of the dashboard
deposit_submit(amount, answer, balance) ==
    /\ page.handled < MaxSubmits
    /\ page.state.currentAccount # Null
    /\ LET n == page.state.currentAccount[1].accountNumber
           r == useAPI_createTransaction(page, n, "deposit", amount, answer, balance)
           p1 == [Noted(page, "createTransaction") EXCEPT !.accounts = r.accounts,
                                                          !.handled = @ + 1]
       IN  page' = IF r.ok THEN Refreshed(p1, r.balance) ELSE p1
    /\ UNCHANGED dbvars

\* the withdraw form
withdraw_submit(amount, answer, balance) ==
    /\ page.handled < MaxSubmits
    /\ page.state.currentAccount # Null
    /\ LET n == page.state.currentAccount[1].accountNumber
           p0 == [page EXCEPT !.handled = @ + 1]
           r == useAPI_createTransaction(p0, n, "withdrawal", amount, answer, balance)
           p1 == [Noted(p0, "createTransaction") EXCEPT !.accounts = r.accounts]
       IN  page' = IF amount > page.state.currentAccount[1].balance THEN p0
                   ELSE IF r.ok THEN Refreshed(p1, r.balance)
                   ELSE p1
    /\ UNCHANGED dbvars

\* the transfer form
transfer_submit(toAccount, amount, answer, answer2, balance) ==
    /\ page.handled < MaxSubmits
    /\ page.state.currentAccount # Null
    /\ LET n == page.state.currentAccount[1].accountNumber
           p0 == [page EXCEPT !.handled = @ + 1]
           r == useAPI_transfer(p0, n, toAccount, amount, answer)
           p1 == [Noted(p0, "transfer") EXCEPT !.accounts = r.accounts]
           accountData == useAPI_getAccount(p1, n, answer2, balance)
           p2 == Noted(p1, "getAccount")
       IN  page' = IF toAccount = n THEN p0
                   ELSE IF amount > page.state.currentAccount[1].balance THEN p0
                   ELSE IF ~r.ok THEN p1
                   ELSE IF ~accountData.ok THEN p2
                   ELSE Refreshed(p2, accountData.balance)
    /\ UNCHANGED dbvars

\* the logout button
logout_click ==
    /\ page.state.currentAccount # Null
    /\ page' = [page EXCEPT !.state.currentAccount = Null, !.state.isLoggedIn = FALSE,
                            !.localStorage = Null]
    /\ UNCHANGED dbvars

FrontendInit ==
    /\ DatabaseInit
    /\ \E stored \in {Null} \cup {Some(n) : n \in FrontNumbers} : page = script_loaded(stored)

FrontendNext ==
    \/ \E healthy \in BOOLEAN : initializeApp(healthy)
    \/ \E answer \in NetworkAnswers, balance \in ServerBalances : checkSession(answer, balance)
    \/ \E n \in FrontNumbers, answer \in NetworkAnswers : signup_submit(n, answer)
    \/ \E amount \in FrontAmounts, answer \in NetworkAnswers, balance \in ServerBalances :
          deposit_submit(amount, answer, balance)
    \/ \E amount \in FrontAmounts, answer \in NetworkAnswers, balance \in ServerBalances :
          withdraw_submit(amount, answer, balance)
    \/ \E toAccount \in FrontNumbers, amount \in FrontAmounts,
          answer \in NetworkAnswers, answer2 \in NetworkAnswers, balance \in ServerBalances :
          transfer_submit(toAccount, amount, answer, answer2, balance)
    \/ logout_click

FrontendSpec == FrontendInit /\ [][FrontendNext]_vars

\* C40: demo-mode fallback. Every call a handler makes through useAPI while
\* state.isDemo is true (the health probe has failed) is served by demoAPI
\* and not by the network API.
C40_DemoModeFallback ==
    \A i \in 1..Len(page.requests) :
        page.requests[i].isDemo => page.requests[i].by = "demoAPI"

====
